---- MODULE Spec2Model ----
(***************************************************************************)
(* VITS TTS plugin (src/plugin.py): the HTTP client                        *)
(* VitsAPIClient.call_vits_api and the two trigger adapters                *)
(* VitsTTSAction.execute and VitsTTSCommand.execute, as coroutines whose   *)
(* steps run from one await to the next.                                   *)
(*                                                                         *)
(* A Python str is a sequence of one-character strings; a Python value is  *)
(* a record [t, v] with t in {"str", "none", "missing"}.                   *)
(***************************************************************************)
EXTENDS Integers, Sequences, FiniteSets, TLC

\* ------------------------------------------------------------- bounds
\* concurrent invocations of execute (one per inbound message)
NumInv == 2
\* longest "text" value of the keyword path's parameter bag
MaxTextLen == 2
\* longest command line (after "/vits") the pattern is studied on
MaxBodyLen == 6
\* longest command line (after "/vits") that triggers the command adapter
MaxCmdLen == 4
\* distinct values of uuid4().hex[:8]
NumNames == 2

\* ------------------------------------------------- program constants
MinAudioBytes == 100
StatusOK == 200

VARIABLES config, pc, adapter, supplied, text, voice_id, requests, status,
          body, failure, audio_path, files, textCalls, voiceCalls, logs,
          result, exc, cmdline, groups

\* config      the plugin's settings, fixed for the life of the load
\* pc          where each invocation is suspended (the await it is at)
\* adapter     which execute runs: "action" or "command"
\* supplied    the voice id the invocation came with (action_data /
\*             matched_groups), text and voice_id the locals of execute
\* requests    the GET requests the invocation has issued
\* status, body, failure, audio_path   the client call: response status,
\*             body read, reason of a None return, path returned
\* files       the temp directory: file name -> bytes
\* textCalls, voiceCalls   the calls of the host's send primitives
\* logs        what the client logged at error level
\* result, exc how execute ended; the exception its except clause caught
\* cmdline, groups   a command line and the groups the pattern extracts
vars == <<config, pc, adapter, supplied, text, voice_id, requests, status,
          body, failure, audio_path, files, textCalls, voiceCalls, logs,
          result, exc, cmdline, groups>>

advars == <<config, pc, adapter, supplied, text, voice_id, requests, status,
            body, failure, audio_path, files, textCalls, voiceCalls, logs,
            result, exc>>

Inv == 1..NumInv
Names == 1..NumNames

\* ------------------------------------------------------ Python values
Str(s) == [t |-> "str", v |-> s]
NoneV == [t |-> "none", v |-> <<>>]
Missing == [t |-> "missing", v |-> <<>>]
EmptyStr == Str(<<>>)

\* dict.get(key, default): the default only when the key is absent
Get(d, k, default) == IF d[k].t = "missing" THEN default ELSE d[k]

\* bool(x) of a str or None
Truthy(x) == x.t = "str" /\ Len(x.v) > 0

SeqsUpTo(S, n) == UNION {[1..k -> S] : k \in 0..n}

IsSpace(c) == c = " "
IsDigit(c) == c = "1"

RECURSIVE LStrip(_)
LStrip(s) == IF s # <<>> /\ IsSpace(Head(s)) THEN LStrip(Tail(s)) ELSE s

RECURSIVE RStrip(_)
RStrip(s) ==
    IF s # <<>> /\ IsSpace(s[Len(s)]) THEN RStrip(SubSeq(s, 1, Len(s) - 1)) ELSE s

\* str.strip()
Strip(s) == RStrip(LStrip(s))

\* urllib.parse.quote on the alphabet used here: a space is percent-encoded
Quote(s) == [k \in 1..Len(s) |-> IF s[k] = " " THEN "%20" ELSE s[k]]

\* --------------------------------------------------- command pattern
\* ^/vits\s+(?P<text>.+?)(?:\s+(?P<voice_id>\d+))?$ applied to what follows
\* "/vits": \s+ greedy, text lazy, the optional group tried before skipping.
AllSpace(r) == \A k \in 1..Len(r) : IsSpace(r[k])
AllDigit(r) == \A k \in 1..Len(r) : IsDigit(r[k])

LeadWs(s) ==
    IF AllSpace(s) THEN Len(s)
    ELSE (CHOOSE k \in 1..Len(s) : ~IsSpace(s[k]) /\ AllSpace(SubSeq(s, 1, k - 1))) - 1

\* the cut j for which r is \s+ (r[1..j]) followed by \d+ (r[j+1..])
IdCuts(r) ==
    {j \in 1..(Len(r) - 1) :
        AllSpace(SubSeq(r, 1, j)) /\ AllDigit(SubSeq(r, j + 1, Len(r)))}

Rest(s, w, k) == SubSeq(s, w + k + 1, Len(s))

\* after w separators and a text of k characters, the remainder is either
\* the optional group followed by $, or $ alone
TailOk(s, w, k) == Rest(s, w, k) = <<>> \/ IdCuts(Rest(s, w, k)) # {}

SepChoices(s) ==
    {w \in 1..LeadWs(s) : \E k \in 1..(Len(s) - w) : TailOk(s, w, k)}

Max(S) == CHOOSE x \in S : \A y \in S : y <= x
Min(S) == CHOOSE x \in S : \A y \in S : x <= y

\* lazy .+? : the shortest text for which the remainder matches
TextLenMutGreedy(s, w) == Max({k \in 1..(Len(s) - w) : TailOk(s, w, k)})
TextLen(s, w) == Min({k \in 1..(Len(s) - w) : TailOk(s, w, k)})

NoMatch == [matched |-> FALSE, text |-> Missing, voice_id |-> Missing]

\* the named groups of the match (an unmatched optional group is None)
Match(s) ==
    IF SepChoices(s) = {} THEN NoMatch
    ELSE LET w == Max(SepChoices(s))
             k == TextLen(s, w)
             r == Rest(s, w, k)
         IN [matched |-> TRUE,
             text |-> Str(SubSeq(s, w + 1, w + k)),
             voice_id |-> IF r = <<>> THEN NoneV
                          ELSE Str(SubSeq(r, Max(IdCuts(r)) + 1, Len(r)))]

\* ------------------------------------------------------ input domains
Chars == {"a", "1", " "}
TextChars == {"a", " "}

\* plugin configuration (config_schema, read through get_config)
Configs ==
    {[max_text_length |-> 1, default_voice_id |-> <<"0">>, retry_count |-> 0],
     [max_text_length |-> 2, default_voice_id |-> <<"2">>, retry_count |-> 2]}

\* action_data of the keyword path: each key absent, None or a str
ActionDatas ==
    [text : {Missing, NoneV} \cup {Str(s) : s \in SeqsUpTo(TextChars, MaxTextLen)},
     voice_id : {Missing, EmptyStr, Str(<<"1">>)}]

\* matched_groups of the command path: the groups of a matching command line
CommandGroups ==
    {[text |-> Match(s).text, voice_id |-> Match(s).voice_id] :
        s \in {b \in SeqsUpTo(Chars, MaxCmdLen) : Match(b).matched}}

Statuses == {StatusOK, 500}
BodySizes == {MinAudioBytes - 1, MinAudioBytes}

NoBody == [owner |-> 0, size |-> 0]
NoResult == [kind |-> "none", ok |-> FALSE, diag |-> "none", nums |-> <<>>]
Returned(ok, diag, nums) == [kind |-> "returned", ok |-> ok, diag |-> diag, nums |-> nums]
Raised == [kind |-> "raised", ok |-> FALSE, diag |-> "HostError", nums |-> <<>>]

\* a plain-text reply: which text, the numbers and the exception text put in it
Msg(kind, nums, detail) == [kind |-> kind, nums |-> nums, detail |-> detail]

\* ----------------------------------------------- decisions of the code
\* len(text) > max_text_length
TooLongMutOffByOne(t, max) == Len(t) > max + 1
TooLong(t, max) == Len(t) > max

\* the user-facing text and the returned diagnostic of the length check
LongMsgMutNoLimit(t, max) == Msg("too_long", <<>>, "")
LongMsg(t, max) == Msg("too_long", <<max>>, "")
LongDiag(t, max) == Returned(FALSE, "too_long", <<Len(t), max>>)

\* if not voice_id: voice_id = default_voice_id
EffectiveVoiceMutAlwaysDefault(v, default) == Str(default)
EffectiveVoice(v, default) == IF ~Truthy(v) THEN Str(default) ELSE v

\* response.status == 200
IsOkMutAnyStatus(st) == TRUE
IsOk(st) == st = StatusOK

\* the size check: len(audio_data) < 100 is rejected
AcceptBodyMutStrict(size) == size > MinAudioBytes
AcceptBodyMutLoose(size) == size >= MinAudioBytes - 1
AcceptBody(size) == ~(size < MinAudioBytes)

\* the request call_vits_api builds from its arguments
Request(t, v) == [text |-> Quote(t), arg |-> t, id |-> v.v, lang |-> "zh"]

\* ------------------------------------------------------------ initial
Pending == [state |-> "pending", m |-> NoMatch]

AdapterInit ==
    /\ config \in Configs
    /\ pc = [i \in Inv |-> "idle"]
    /\ adapter = [i \in Inv |-> "none"]
    /\ supplied = [i \in Inv |-> Missing]
    /\ text = [i \in Inv |-> <<>>]
    /\ voice_id = [i \in Inv |-> Missing]
    /\ requests = [i \in Inv |-> <<>>]
    /\ status = [i \in Inv |-> 0]
    /\ body = [i \in Inv |-> NoBody]
    /\ failure = [i \in Inv |-> "none"]
    /\ audio_path = [i \in Inv |-> 0]
    /\ files = [n \in Names |-> NoBody]
    /\ textCalls = [i \in Inv |-> <<>>]
    /\ voiceCalls = [i \in Inv |-> <<>>]
    /\ logs = [i \in Inv |-> {}]
    /\ result = [i \in Inv |-> NoResult]
    /\ exc = [i \in Inv |-> "none"]

Init ==
    /\ AdapterInit
    /\ cmdline = <<>>
    /\ groups = Pending

\* ------------------------------------------------- the adapters' steps
\* entering the except clause of execute: the exception is kept for the reply
Catch(i, e) ==
    /\ pc' = [pc EXCEPT ![i] = "handler"]
    /\ exc' = [exc EXCEPT ![i] = e]

\* execute up to its first await: parameter extraction, the two input
\* checks, the default voice id, and call_vits_api up to session.get
Begin(i, ad, d) ==
    /\ pc[i] = "idle"
    /\ adapter' = [adapter EXCEPT ![i] = ad]
    /\ supplied' = [supplied EXCEPT ![i] = d.voice_id]
    /\ LET t == Get(d, "text", EmptyStr)
           v == Get(d, "voice_id", EmptyStr)
           s == Strip(t.v)
       IN IF t.t # "str"
          THEN \* None.strip(): AttributeError
               /\ Catch(i, "AttributeError")
               /\ UNCHANGED <<text, voice_id, requests>>
          ELSE /\ text' = [text EXCEPT ![i] = s]
               /\ IF s = <<>>
                  THEN /\ pc' = [pc EXCEPT ![i] = "send_empty"]
                       /\ voice_id' = [voice_id EXCEPT ![i] = v]
                       /\ UNCHANGED <<requests, exc>>
                  ELSE IF TooLong(s, config.max_text_length)
                  THEN /\ pc' = [pc EXCEPT ![i] = "send_long"]
                       /\ voice_id' = [voice_id EXCEPT ![i] = v]
                       /\ UNCHANGED <<requests, exc>>
                  ELSE LET vid == EffectiveVoice(v, config.default_voice_id)
                       IN /\ voice_id' = [voice_id EXCEPT ![i] = vid]
                          /\ requests' =
                               [requests EXCEPT ![i] = Append(@, Request(s, vid))]
                          /\ pc' = [pc EXCEPT ![i] = "get"]
                          /\ UNCHANGED exc
    /\ UNCHANGED <<config, status, body, failure, audio_path, files, textCalls,
                   voiceCalls, logs, result, cmdline, groups>>

\* VitsTTSAction.execute is entered with the action's parameter bag
ExecuteAction(i) == \E d \in ActionDatas : Begin(i, "action", d)

\* VitsTTSCommand.execute is entered with the groups of the matched command
ExecuteCommand(i) == \E d \in CommandGroups : Begin(i, "command", d)

\* await self.send_text(m) followed by `return r`; the host primitive either
\* returns or raises, and a raise inside the try block enters the handler
ReplyAndReturn(i, at, m, r) ==
    /\ pc[i] = at
    /\ \E raised \in BOOLEAN :
         /\ textCalls' = [textCalls EXCEPT ![i] = Append(@, [msg |-> m, raised |-> raised])]
         /\ IF raised
            THEN Catch(i, "HostError") /\ UNCHANGED result
            ELSE /\ pc' = [pc EXCEPT ![i] = "done"]
                 /\ result' = [result EXCEPT ![i] = r]
                 /\ UNCHANGED exc
    /\ UNCHANGED <<config, adapter, supplied, text, voice_id, requests, status, body,
                   failure, audio_path, files, voiceCalls, logs, cmdline, groups>>

SendEmpty(i) ==
    ReplyAndReturn(i, "send_empty", Msg("missing_text", <<>>, ""),
                   Returned(FALSE, "missing_text", <<>>))

SendLong(i) ==
    ReplyAndReturn(i, "send_long", LongMsg(text[i], config.max_text_length),
                   LongDiag(text[i], config.max_text_length))

SendFail(i) ==
    ReplyAndReturn(i, "send_fail", Msg("synth_failed", <<>>, ""),
                   Returned(FALSE, "synth_failed", <<>>))

\* --------------------------------------------------- the client's steps
\* every failure path of call_vits_api: log the reason and return None, so
\* that the adapter goes on to its failure reply
ClientRetriesMut(i, kind, entry) ==
    /\ failure' = [failure EXCEPT ![i] = kind]
    /\ logs' = [logs EXCEPT ![i] = @ \cup {entry}]
    /\ IF Len(requests[i]) <= config.retry_count
       THEN /\ requests' = [requests EXCEPT ![i] = Append(@, Head(@))]
            /\ pc' = [pc EXCEPT ![i] = "get"]
       ELSE /\ pc' = [pc EXCEPT ![i] = "send_fail"]
            /\ UNCHANGED requests
ClientReturnsNone(i, kind, entry) ==
    /\ failure' = [failure EXCEPT ![i] = kind]
    /\ logs' = [logs EXCEPT ![i] = @ \cup {entry}]
    /\ pc' = [pc EXCEPT ![i] = "send_fail"]
    /\ UNCHANGED requests

\* session.get answers: the status line and the headers are in
GetResponse(i) ==
    /\ pc[i] = "get"
    /\ \E st \in Statuses :
         /\ status' = [status EXCEPT ![i] = st]
         /\ pc' = [pc EXCEPT ![i] = IF IsOk(st) THEN "read" ELSE "errtext"]
    /\ UNCHANGED <<config, adapter, supplied, text, voice_id, requests, body, failure,
                   audio_path, files, textCalls, voiceCalls, logs, result, exc,
                   cmdline, groups>>

\* response.read() returns the whole body; the size check; the file named
\* vits_tts_<8 hex digits of a uuid4>.wav is opened "wb" and written
ReadBody(i) ==
    /\ pc[i] = "read"
    /\ \E n \in BodySizes :
         LET b == [owner |-> i, size |-> n]
         IN /\ body' = [body EXCEPT ![i] = b]
            /\ IF ~AcceptBody(n)
               THEN /\ ClientReturnsNone(i, "small", "small")
                    /\ UNCHANGED <<files, audio_path>>
               ELSE \E name \in Names, written \in BOOLEAN :
                      IF written
                      THEN /\ files' = [files EXCEPT ![name] = b]
                           /\ audio_path' = [audio_path EXCEPT ![i] = name]
                           /\ pc' = [pc EXCEPT ![i] = "send_voice"]
                           /\ UNCHANGED <<failure, logs, requests>>
                      ELSE \* open() raises OSError: except Exception
                           /\ ClientReturnsNone(i, "exception", "error")
                           /\ UNCHANGED <<files, audio_path>>
    /\ UNCHANGED <<config, adapter, supplied, text, voice_id, status, textCalls,
                   voiceCalls, result, exc, cmdline, groups>>

\* a status other than 200: response.text() is read and logged with the status
ErrText(i) ==
    /\ pc[i] = "errtext"
    /\ \E decoded \in BOOLEAN :
         IF decoded
         THEN ClientReturnsNone(i, "status", "errbody")
         ELSE ClientReturnsNone(i, "exception", "error")
    /\ UNCHANGED <<config, adapter, supplied, text, voice_id, status, body, audio_path,
                   files, textCalls, voiceCalls, result, exc, cmdline, groups>>

\* the session's total timeout, or a transport error, at any await of the
\* request: asyncio.TimeoutError / aiohttp.ClientError are caught
Abort(i, kind) ==
    /\ pc[i] \in {"get", "read", "errtext"}
    /\ ClientReturnsNone(i, kind, kind)
    /\ UNCHANGED <<config, adapter, supplied, text, voice_id, status, body, audio_path,
                   files, textCalls, voiceCalls, result, exc, cmdline, groups>>

Timeout(i) == Abort(i, "timeout")

TransportError(i) == Abort(i, "transport")

\* ------------------------------------------ the adapters' last steps
\* send_custom (action) / send_type (command) with the returned path; the
\* host reads the file the path names
SendVoice(i) ==
    /\ pc[i] = "send_voice"
    /\ \E raised \in BOOLEAN :
         /\ voiceCalls' =
              [voiceCalls EXCEPT ![i] =
                 Append(@, [prim |-> IF adapter[i] = "action" THEN "send_custom"
                                     ELSE "send_type",
                            type |-> "voiceurl",
                            content |-> audio_path[i],
                            file |-> files[audio_path[i]],
                            raised |-> raised])]
         /\ IF raised
            THEN Catch(i, "HostError") /\ UNCHANGED result
            ELSE /\ pc' = [pc EXCEPT ![i] = "done"]
                 /\ result' = [result EXCEPT ![i] = Returned(TRUE, "sent", <<>>)]
                 /\ UNCHANGED exc
    /\ UNCHANGED <<config, adapter, supplied, text, voice_id, requests, status, body,
                   failure, audio_path, files, textCalls, logs, cmdline, groups>>

\* except Exception as e: the error reply is awaited outside any try block,
\* so a raise of send_text here leaves execute
Handler(i) ==
    /\ pc[i] = "handler"
    /\ \E raised \in BOOLEAN :
         /\ textCalls' =
              [textCalls EXCEPT ![i] =
                 Append(@, [msg |-> Msg("error", <<>>, exc[i]), raised |-> raised])]
         /\ result' = [result EXCEPT ![i] =
                         IF raised THEN Raised ELSE Returned(FALSE, "error", <<>>)]
    /\ pc' = [pc EXCEPT ![i] = "done"]
    /\ UNCHANGED <<config, adapter, supplied, text, voice_id, requests, status, body,
                   failure, audio_path, files, voiceCalls, logs, exc, cmdline, groups>>

Next ==
    \E i \in Inv :
        \/ ExecuteAction(i)
        \/ ExecuteCommand(i)
        \/ SendEmpty(i)
        \/ SendLong(i)
        \/ GetResponse(i)
        \/ ReadBody(i)
        \/ ErrText(i)
        \/ Timeout(i)
        \/ TransportError(i)
        \/ SendVoice(i)
        \/ SendFail(i)
        \/ Handler(i)

Spec == Init /\ [][Next]_vars

\* ------------------------------------------- the command pattern alone
ParseInit ==
    /\ AdapterInit
    /\ cmdline \in SeqsUpTo(Chars, MaxBodyLen)
    /\ groups = Pending

\* the host matches command_pattern against the message
Parse ==
    /\ groups.state = "pending"
    /\ groups' = [state |-> "parsed", m |-> Match(cmdline)]
    /\ UNCHANGED <<advars, cmdline>>

ParseSpec == ParseInit /\ [][Parse]_vars

\* ------------------------------------------------------------ vocabulary
Done(i) == pc[i] = "done"

Entered(i) == adapter[i] # "none"

\* execute returned (False, ...)
FailedOutcome(i) == result[i].kind = "returned" /\ ~result[i].ok

\* the send_text of the except clause raised, so execute did not return
ErrorReplyRaised(i) == result[i].kind = "raised"

\* every host primitive this invocation awaited returned normally
HostReturned(i) ==
    /\ \A k \in 1..Len(textCalls[i]) : ~textCalls[i][k].raised
    /\ \A k \in 1..Len(voiceCalls[i]) : ~voiceCalls[i][k].raised

\* no other invocation drew the same file name
OwnPath(i) ==
    \A j \in Inv \ {i} : audio_path[i] # 0 => audio_path[j] # audio_path[i]

\* some file holds bytes this invocation wrote
WroteFile(i) == \E n \in Names : files[n].owner = i

BodyReceived(i) == body[i] # NoBody

\* (C1) Success path of both adapters: when the API answered 200 with a body
\* of at least 100 bytes (and the file write and the host's voice send did
\* not raise, and no other invocation drew the same file name), execute
\* returns (True, ...), the voice-send primitive was invoked exactly once
\* with type "voiceurl" and the path of a file holding exactly the response
\* bytes, and no plain-text message was sent.
C1_SuccessPath ==
    \A i \in Inv :
        (/\ Done(i)
         /\ status[i] = StatusOK
         /\ BodyReceived(i)
         /\ body[i].size >= MinAudioBytes
         /\ failure[i] # "exception"
         /\ HostReturned(i)
         /\ OwnPath(i))
        => /\ result[i] = Returned(TRUE, "sent", <<>>)
           /\ Len(voiceCalls[i]) = 1
           /\ voiceCalls[i][1].type = "voiceurl"
           /\ voiceCalls[i][1].content = audio_path[i]
           /\ voiceCalls[i][1].file = body[i]
           /\ files[audio_path[i]] = body[i]
           /\ textCalls[i] = <<>>

C1_Witness ==
    \E i, j \in Inv :
        /\ adapter[i] = "action" /\ adapter[j] = "command"
        /\ \A k \in {i, j} :
             /\ Done(k) /\ body[k].size = MinAudioBytes /\ result[k].ok
             /\ HostReturned(k) /\ OwnPath(k)

\* (C2) call_vits_api is only ever invoked with a text that is trimmed,
\* non-empty and no longer than max_text_length; an invocation whose text is
\* empty after trimming or longer than the limit makes no network call and
\* (unless the error reply of the except clause itself raised, see C5) ends
\* with a failed outcome.
C2_ValidatedBeforeCall ==
    \A i \in Inv :
        /\ \A k \in 1..Len(requests[i]) :
             /\ requests[i][k].arg = Strip(requests[i][k].arg)
             /\ requests[i][k].arg # <<>>
             /\ Len(requests[i][k].arg) <= config.max_text_length
        /\ (Entered(i) /\ (text[i] = <<>> \/ Len(text[i]) > config.max_text_length))
           => /\ requests[i] = <<>>
              /\ (Done(i) /\ ~ErrorReplyRaised(i)) => FailedOutcome(i)

C2_Witness ==
    \E i, j \in Inv :
        /\ Done(i) /\ Entered(i) /\ text[i] = <<>> /\ FailedOutcome(i)
        /\ Done(j) /\ Len(text[j]) > config.max_text_length /\ FailedOutcome(j)
        /\ requests[i] = <<>> /\ requests[j] = <<>>

Range(q) == {q[k] : k \in 1..Len(q)}

LongReplies(i) ==
    {k \in 1..Len(textCalls[i]) : textCalls[i][k].msg.kind = "too_long"}

\* (C3, as claimed) The plain-text error sent for a text longer than
\* max_text_length names both the configured limit and the actual length.
C3_MessageNamesLimitAndLength ==
    \A i \in Inv :
        \A k \in LongReplies(i) :
            /\ config.max_text_length \in Range(textCalls[i][k].msg.nums)
            /\ Len(text[i]) \in Range(textCalls[i][k].msg.nums)

\* (C3, amended) For a text longer than max_text_length, in both adapters,
\* the plain-text error sent to the user names the configured limit only;
\* the actual length appears, with the limit, in the diagnostic string that
\* execute returns.
C3_MessageNamesLimitOnly ==
    \A i \in Inv :
        (Entered(i) /\ Len(text[i]) > config.max_text_length)
        => /\ pc[i] \in {"send_long", "handler", "done"}
           /\ pc[i] # "send_long" =>
                /\ LongReplies(i) = {1}
                /\ textCalls[i][1].msg.nums = <<config.max_text_length>>
           /\ (Done(i) /\ ~textCalls[i][1].raised) =>
                /\ FailedOutcome(i)
                /\ result[i].nums = <<Len(text[i]), config.max_text_length>>

C3_Witness ==
    \E i, j \in Inv :
        /\ adapter[i] = "action" /\ adapter[j] = "command"
        /\ \A k \in {i, j} :
             /\ Done(k) /\ Len(text[k]) > config.max_text_length
             /\ LongReplies(k) = {1} /\ ~textCalls[k][1].raised

\* the API answered, and the answer is not a 200 with at least 100 bytes
Rejected(i) ==
    \/ status[i] \notin {0, StatusOK}
    \/ status[i] = StatusOK /\ BodyReceived(i) /\ body[i].size < MinAudioBytes

FixedFailure == Msg("synth_failed", <<>>, "")

\* (C4) The client hands back a path only for a 200 response whose body has
\* at least 100 bytes (100 is accepted, 99 is not), and does so for every
\* such response whose file could be written. For any other response it
\* returns None and writes no file; the adapter never invokes the voice send,
\* ends (unless the error reply of the except clause raised, see C5) with a
\* failed outcome, replies with the fixed failure text (followed only by
\* the except clause's reply when that send itself raised), and the body
\* text, logged once it was read, is in no reply.
C4_AcceptanceAndGenericFailure ==
    \A i \in Inv :
        /\ audio_path[i] # 0 =>
             status[i] = StatusOK /\ BodyReceived(i) /\ body[i].size >= MinAudioBytes
        /\ (status[i] = StatusOK /\ BodyReceived(i) /\ body[i].size >= MinAudioBytes
              /\ failure[i] # "exception") => audio_path[i] # 0
        /\ Rejected(i) =>
             /\ audio_path[i] = 0
             /\ ~WroteFile(i)
             /\ voiceCalls[i] = <<>>
             /\ (Done(i) /\ ~ErrorReplyRaised(i)) => FailedOutcome(i)
             /\ (Done(i) /\ HostReturned(i)) =>
                  textCalls[i] = <<[msg |-> FixedFailure, raised |-> FALSE]>>
             /\ \A k \in 1..Len(textCalls[i]) :
                  /\ textCalls[i][k].msg.detail # "errbody"
                  /\ k = 1 => textCalls[i][k].msg = FixedFailure
                  /\ k > 1 => /\ k = 2
                              /\ textCalls[i][1].raised
                              /\ textCalls[i][k].msg = Msg("error", <<>>, "HostError")
             /\ failure[i] = "status" => "errbody" \in logs[i]

C4_Witness ==
    \E i, j \in Inv :
        /\ Done(i) /\ status[i] = 500 /\ failure[i] = "status" /\ FailedOutcome(i)
        /\ HostReturned(i)
        /\ Done(j) /\ status[j] = StatusOK /\ body[j].size = MinAudioBytes - 1
        /\ FailedOutcome(j) /\ HostReturned(j)

\* (C5) No exception of any step of execute, the error reply of the except
\* clause included, leaves execute: every invocation ends by returning, and
\* one that met an exception returns a failed outcome after a generic error
\* reply was sent.
C5_NothingPropagates ==
    \A i \in Inv :
        Done(i) =>
            /\ result[i].kind = "returned"
            /\ exc[i] # "none" =>
                 /\ ~result[i].ok
                 /\ \E k \in 1..Len(textCalls[i]) :
                      textCalls[i][k].msg.kind = "error" /\ ~textCalls[i][k].raised

\* (C6) Whatever the interleaving of concurrent invocations, no two of them
\* write the same temp-file path, and the path an invocation hands to the
\* voice send names a file holding that invocation's own response bytes.
C6_UniqueFileNames ==
    \A i \in Inv :
        /\ \A j \in Inv \ {i} : audio_path[i] # 0 => audio_path[j] # audio_path[i]
        /\ \A k \in 1..Len(voiceCalls[i]) : voiceCalls[i][k].file = body[i]

\* (C7) A file holds an invocation's bytes only once its response had status
\* 200, the whole body was read and the size check passed, and then it holds
\* the whole body. While the request is awaited no file exists and the
\* timeout can end the wait; after a timeout or transport error the body was
\* never received, the client has returned None without raising (no path, no
\* file), the adapter replies in plain text and never sends a voice message,
\* and it ends (unless the error reply of the except clause raised, see C5)
\* with a failed outcome.
C7_WriteOnlyAfterFullBody ==
    \A i \in Inv :
        /\ \A n \in Names : files[n].owner = i =>
             /\ status[i] = StatusOK
             /\ files[n] = body[i]
             /\ body[i].size >= MinAudioBytes
        /\ pc[i] \in {"get", "read", "errtext"} =>
             ~WroteFile(i) /\ ENABLED Timeout(i)
        /\ failure[i] \in {"timeout", "transport"} =>
             /\ ~BodyReceived(i)
             /\ ~WroteFile(i)
             /\ audio_path[i] = 0
             /\ voiceCalls[i] = <<>>
             /\ pc[i] \in {"send_fail", "handler", "done"}
             /\ pc[i] # "send_fail" => textCalls[i][1].msg = FixedFailure
             /\ pc[i] = "handler" => exc[i] = "HostError" /\ textCalls[i][1].raised
             /\ (Done(i) /\ ~ErrorReplyRaised(i)) => FailedOutcome(i)

C7_Witness ==
    \E i, j \in Inv :
        /\ Done(i) /\ failure[i] = "timeout" /\ status[i] = StatusOK
        /\ FailedOutcome(i) /\ HostReturned(i)
        /\ Done(j) /\ WroteFile(j) /\ result[j].ok

\* (C8) The request carries the configured default_voice_id exactly when no
\* voice id came with the invocation (key absent or empty in the parameter
\* bag, optional group unmatched in the command), and the supplied voice id
\* verbatim otherwise.
C8_DefaultVoiceWhenOmitted ==
    \A i \in Inv :
        \A k \in 1..Len(requests[i]) :
            /\ ~Truthy(supplied[i]) => requests[i][k].id = config.default_voice_id
            /\ Truthy(supplied[i]) => requests[i][k].id = supplied[i].v

C8_Witness ==
    \E i, j \in Inv :
        /\ adapter[i] = "action" /\ adapter[j] = "command"
        /\ supplied[i] = Missing /\ supplied[j] = Str(<<"1">>)
        /\ requests[i] # <<>> /\ requests[j] # <<>>
        /\ requests[i][1].id = config.default_voice_id
        /\ requests[j][1].id = <<"1">>

TokenBody(s) == s # <<>> /\ IsSpace(s[1]) /\ ~IsSpace(s[Len(s)])

\* length of the last whitespace-free run of b
LastTokenLen(b) ==
    Max({k \in 1..Len(b) : \A j \in (Len(b) - k + 1)..Len(b) : ~IsSpace(b[j])})

LastToken(b) == SubSeq(b, Len(b) - LastTokenLen(b) + 1, Len(b))

\* the last token is a voice id: all digits, and not the only token
HasTrailingId(b) == AllDigit(LastToken(b)) /\ LastTokenLen(b) < Len(b)

====
